---- MODULE Spec2Model ----
(***************************************************************************)
(* Model of scripts/bigquery-tests/04_test_access_summary.py: the          *)
(* permission probes of check_dataset_permissions, the access level        *)
(* derived by generate_access_report and the exit code of main.            *)
(*                                                                         *)
(* Every call to the BigQuery client is one atomic step of a run; the      *)
(* service answers each call either "ok" or with one of the Errors.  The   *)
(* dataset's transient tables are the only state shared between runs.      *)
(***************************************************************************)
EXTENDS Integers, Sequences, FiniteSets

\* Number of invocations of the script that the model holds.
NumRuns == 2

Runs == 1..NumRuns

\* Values of the --dataset-id argument ("test_data" is the default).
DatasetIds == {"test_data", "scratch"}

\* Ways a client call can raise: exceptions.NotFound, exceptions.Forbidden,
\* and anything else (timeout, quota, service unavailable, ...).
Errors == {"NotFound", "Forbidden", "Other"}

PermissionNames ==
    {"dataset_exists", "can_list_tables", "can_get_dataset", "can_create_table",
     "can_read_data", "can_write_data", "can_delete_data", "can_update_dataset"}

AccessLevels == {"NONE", "READER", "WRITER", "OWNER"}

VARIABLES
    pc,            \* pc[r]: the statement run r executes next
    dataset_id,    \* dataset_id[r]: args.dataset_id of run r
    permissions,   \* permissions[r]: the dict of check_dataset_permissions
    calls,         \* calls[r]: the client calls run r made, with their results
    tables,        \* the transient tables in the project: <<name, creating run>>
    access_level,  \* access_level[r]: "unset" until generate_access_report sets it
    exit_code,     \* exit_code[r]: -1 while run r has not exited
    pc2,           \* script 2: the statement its main executes next
    args,          \* script 2: the parsed arguments
    calls2,        \* script 2: the client calls made, with their results
    read_success,  \* script 2: main's read_success, "unbound" until assigned
    has_write,     \* script 2: main's has_write, "unbound" until assigned
    exit_code2     \* script 2: -1 while it has not exited

\* The state of 02_test_data_read.py.
script2vars == <<pc2, args, calls2, read_success, has_write, exit_code2>>

vars == <<pc, dataset_id, permissions, calls, tables, access_level, exit_code,
          script2vars>>

----------------------------------------------------------------------------
(* Helpers over the state *)

\* permissions = {...: False} at the top of check_dataset_permissions.
NoPermissions == [n \in PermissionNames |-> FALSE]

\* dataset_ref = f"{project_id}.{dataset_id}"
dataset_ref(r) == <<"project", dataset_id[r]>>

\* A transient table name that differs from run to run.
test_table_per_run(r) == <<dataset_ref(r), "access_test_temp", r>>

\* test_table = f"{dataset_ref}.access_test_temp": the same name in every run.
test_table(r) == <<dataset_ref(r), "access_test_temp">>

\* CREATE OR REPLACE TABLE `name` AS SELECT ...: whatever table had the name
\* is replaced by the one run r creates.
CreateOrReplace(T, name, r) == {t \in T : t[1] # name} \cup {<<name, r>>}

\* A delete_table that removes nothing (it is given another name).
DeleteTable_NoOp(T, name) == T

\* client.delete_table(name, not_found_ok=True): the table of that name is
\* removed, whoever created it; no table of that name is not an error.
DeleteTable(T, name) == {t \in T : t[1] # name}

Attempted(r, api) == \E i \in DOMAIN calls[r] : calls[r][i][1] = api

Returned(r, api, res) == \E i \in DOMAIN calls[r] : calls[r][i] = <<api, res>>

\* What the bare "except:" handlers see of a result: it raised or it did not.
Outcome(res) == IF res = "ok" THEN "ok" ELSE "raised"

\* permissions[name] = True for the names a successful probe sets.
Grant(perm, names) == [n \in PermissionNames |-> perm[n] \/ n \in names]

----------------------------------------------------------------------------
(* Control flow of check_dataset_permissions: the statement reached after   *)
(* each client call, by the call's result.                                  *)

\* get_dataset whose NotFound and Forbidden handlers fall through to the
\* next probe instead of returning.
AfterGetDataset_FallThrough(res) ==
    CASE res \in {"ok", "NotFound", "Forbidden"} -> "list_tables"
      [] OTHER -> "except"

\* get_dataset whose Forbidden handler goes on to the next probe.
AfterGetDataset_ForbiddenPass(res) ==
    CASE res \in {"ok", "Forbidden"} -> "list_tables"
      [] res = "NotFound" -> "access_level"
      [] OTHER -> "except"

\* get_dataset: NotFound and Forbidden return the permissions as they are;
\* no handler matches any other exception, which leaves the function.
AfterGetDataset(res) ==
    CASE res = "ok" -> "list_tables"
      [] res \in {"NotFound", "Forbidden"} -> "access_level"
      [] OTHER -> "except"

\* list_tables whose handler returns the permissions.
AfterListTables_Return(res) == IF res = "ok" THEN "read_data" ELSE "access_level"

\* list_tables: "except: pass", on to the read probe either way.
AfterListTables(res) == "read_data"

\* The read probe whose handler returns the permissions.
AfterReadData_Return(res) == IF res = "ok" THEN "create_table" ELSE "access_level"

\* SELECT 1 ... LIMIT 1: "except: pass", on to the write probe either way.
AfterReadData(res) == "create_table"

\* The clean-up in a "finally:" block, reached whatever the create did.
AfterCreateTable_Finally(res) == "clean_up"

\* CREATE OR REPLACE TABLE: the clean-up follows in the same try block, so
\* an exception of the query skips it.
AfterCreateTable(res) == IF res = "ok" THEN "clean_up" ELSE "delete_data"

\* delete_table: "except: pass", on to the delete probe either way.
AfterCleanUp(res) == "delete_data"

\* DELETE FROM: "except: pass", on to the update probe either way.
AfterDeleteData(res) == "update_dataset"

\* update_dataset: "except: pass", then return permissions.
AfterUpdateDataset(res) == "access_level"

\* A clean-up whose failure counts as a failure of the probe.
CleanUpPermissions_Revoke(perm, res) ==
    IF res = "ok" THEN perm
    ELSE [perm EXCEPT !["can_create_table"] = FALSE, !["can_write_data"] = FALSE]

\* A clean-up whose failure takes back can_write_data alone.
CleanUpPermissions_WriteUndone(perm, res) ==
    IF res = "ok" THEN perm ELSE [perm EXCEPT !["can_write_data"] = FALSE]

\* The permissions after the clean-up call: neither its success nor its
\* failure touches the dict.
CleanUpPermissions(perm, res) == perm

\* The classification with the WRITER test ahead of the OWNER test.
DetermineAccessLevel_WriterFirst(perm) ==
    IF perm["can_write_data"] /\ perm["can_create_table"] THEN "WRITER"
    ELSE IF perm["can_update_dataset"] /\ perm["can_delete_data"] THEN "OWNER"
    ELSE IF perm["can_read_data"] THEN "READER"
    ELSE "NONE"

\* The classification that gives no level without read evidence.
DetermineAccessLevel_ReadRequired(perm) ==
    IF ~perm["can_read_data"] THEN "NONE"
    ELSE IF perm["can_update_dataset"] /\ perm["can_delete_data"] THEN "OWNER"
    ELSE IF perm["can_write_data"] /\ perm["can_create_table"] THEN "WRITER"
    ELSE "READER"

\* "Determine access level" of generate_access_report.
DetermineAccessLevel(perm) ==
    IF perm["can_update_dataset"] /\ perm["can_delete_data"] THEN "OWNER"
    ELSE IF perm["can_write_data"] /\ perm["can_create_table"] THEN "WRITER"
    ELSE IF perm["can_read_data"] THEN "READER"
    ELSE "NONE"

\* The exit code taken from the truth value of the level string itself.
ExitCode_LevelTruthy(level) == IF level # "" THEN 0 ELSE 1

\* return access_level != "NONE"; return 0 if has_access else 1
ExitCode(level) == IF level # "NONE" THEN 0 ELSE 1

\* main's "except Exception": return 1
ExceptExitCode == 1

----------------------------------------------------------------------------
(* The steps of a run *)

\* One client call of run r: the call is logged and control moves on.
Call(r, api, res, next) ==
    /\ calls' = [calls EXCEPT ![r] = Append(@, <<api, res>>)]
    /\ pc' = [pc EXCEPT ![r] = next]

\* main calls generate_access_report, which constructs the client;
\* a failure to construct it propagates to main's handler.
NewClient(r) ==
    /\ pc[r] = "main"
    /\ \E res \in {"ok"} \cup Errors :
          Call(r, "Client", res, IF res = "ok" THEN "get_dataset" ELSE "except")
    /\ UNCHANGED <<script2vars, dataset_id, permissions, tables, access_level, exit_code>>

\* client.get_dataset(dataset_ref)
GetDataset(r) ==
    /\ pc[r] = "get_dataset"
    /\ \E res \in {"ok"} \cup Errors :
          /\ Call(r, "get_dataset", res, AfterGetDataset(res))
          /\ permissions' = [permissions EXCEPT ![r] =
                IF res = "ok" THEN Grant(@, {"dataset_exists", "can_get_dataset"})
                ELSE @]
    /\ UNCHANGED <<script2vars, dataset_id, tables, access_level, exit_code>>

\* list(client.list_tables(dataset_ref))
ListTables(r) ==
    /\ pc[r] = "list_tables"
    /\ \E res \in {"ok"} \cup Errors :
          /\ Call(r, "list_tables", Outcome(res), AfterListTables(res))
          /\ permissions' = [permissions EXCEPT ![r] =
                IF res = "ok" THEN Grant(@, {"can_list_tables"}) ELSE @]
    /\ UNCHANGED <<script2vars, dataset_id, tables, access_level, exit_code>>

\* list(client.query("SELECT 1 FROM ... transcripts LIMIT 1"))
ReadData(r) ==
    /\ pc[r] = "read_data"
    /\ \E res \in {"ok"} \cup Errors :
          /\ Call(r, "query_select", Outcome(res), AfterReadData(res))
          /\ permissions' = [permissions EXCEPT ![r] =
                IF res = "ok" THEN Grant(@, {"can_read_data"}) ELSE @]
    /\ UNCHANGED <<script2vars, dataset_id, tables, access_level, exit_code>>

\* client.query("CREATE OR REPLACE TABLE ... access_test_temp ...").result()
CreateTable(r) ==
    /\ pc[r] = "create_table"
    /\ \E res \in {"ok"} \cup Errors :
          /\ Call(r, "query_create", Outcome(res), AfterCreateTable(res))
          /\ permissions' = [permissions EXCEPT ![r] =
                IF res = "ok" THEN Grant(@, {"can_create_table", "can_write_data"})
                ELSE @]
          /\ tables' = IF res = "ok"
                       THEN CreateOrReplace(tables, test_table(r), r)
                       ELSE tables
    /\ UNCHANGED <<script2vars, dataset_id, access_level, exit_code>>

\* client.delete_table(test_table, not_found_ok=True)
CleanUp(r) ==
    /\ pc[r] = "clean_up"
    /\ \E res \in {"ok"} \cup Errors :
          /\ Call(r, "delete_table", Outcome(res), AfterCleanUp(res))
          /\ permissions' = [permissions EXCEPT ![r] = CleanUpPermissions(@, res)]
          /\ tables' = IF res = "ok"
                       THEN DeleteTable(tables, test_table(r))
                       ELSE tables
    /\ UNCHANGED <<script2vars, dataset_id, access_level, exit_code>>

\* client.query("DELETE FROM ... WHERE id = 'nonexistent-test-id'").result()
DeleteData(r) ==
    /\ pc[r] = "delete_data"
    /\ \E res \in {"ok"} \cup Errors :
          /\ Call(r, "query_delete", Outcome(res), AfterDeleteData(res))
          /\ permissions' = [permissions EXCEPT ![r] =
                IF res = "ok" THEN Grant(@, {"can_delete_data"}) ELSE @]
    /\ UNCHANGED <<script2vars, dataset_id, tables, access_level, exit_code>>

\* client.update_dataset(dataset, ["description"])
UpdateDataset(r) ==
    /\ pc[r] = "update_dataset"
    /\ \E res \in {"ok"} \cup Errors :
          /\ Call(r, "update_dataset", Outcome(res), AfterUpdateDataset(res))
          /\ permissions' = [permissions EXCEPT ![r] =
                IF res = "ok" THEN Grant(@, {"can_update_dataset"}) ELSE @]
    /\ UNCHANGED <<script2vars, dataset_id, tables, access_level, exit_code>>

\* generate_access_report, from the returned permissions to its return.
AccessLevelSummary(r) ==
    /\ pc[r] = "access_level"
    /\ access_level' = [access_level EXCEPT ![r] = DetermineAccessLevel(permissions[r])]
    /\ pc' = [pc EXCEPT ![r] = "return"]
    /\ UNCHANGED <<script2vars, dataset_id, permissions, calls, tables, exit_code>>

\* main: return 0 if has_access else 1
MainReturn(r) ==
    /\ pc[r] = "return"
    /\ exit_code' = [exit_code EXCEPT ![r] = ExitCode(access_level[r])]
    /\ pc' = [pc EXCEPT ![r] = "exited"]
    /\ UNCHANGED <<script2vars, dataset_id, permissions, calls, tables, access_level>>

\* main: except Exception: return 1
MainExcept(r) ==
    /\ pc[r] = "except"
    /\ exit_code' = [exit_code EXCEPT ![r] = ExceptExitCode]
    /\ pc' = [pc EXCEPT ![r] = "exited"]
    /\ UNCHANGED <<script2vars, dataset_id, permissions, calls, tables, access_level>>

\* The probes of check_dataset_permissions, in order.
check_dataset_permissions(r) ==
    \/ GetDataset(r)
    \/ ListTables(r)
    \/ ReadData(r)
    \/ CreateTable(r)
    \/ CleanUp(r)
    \/ DeleteData(r)
    \/ UpdateDataset(r)

Next ==
    \E r \in Runs :
        \/ NewClient(r)
        \/ check_dataset_permissions(r)
        \/ AccessLevelSummary(r)
        \/ MainReturn(r)
        \/ MainExcept(r)

----------------------------------------------------------------------------
(* Specifications *)

\* The transient tables an earlier run may have left behind (creator 0).
LeftBehind == {<<<<<<"project", d>>, "access_test_temp">>, 0>> : d \in DatasetIds}

\* 02_test_data_read.py is not invoked.
Script2Absent ==
    /\ pc2 = "absent"
    /\ args = [dataset_id |-> "test_data", table_id |-> "transcripts",
               test_write |-> FALSE]
    /\ calls2 = <<>>
    /\ read_success = "unbound"
    /\ has_write = "unbound"
    /\ exit_code2 = -1

\* The runs in Started are at the top of main's try block; the others are
\* never invoked.
InitRuns(Started) ==
    /\ pc = [r \in Runs |-> IF r \in Started THEN "main" ELSE "absent"]
    /\ dataset_id \in [Runs -> DatasetIds]
    /\ permissions = [r \in Runs |-> NoPermissions]
    /\ calls = [r \in Runs |-> <<>>]
    /\ tables \in SUBSET LeftBehind
    /\ access_level = [r \in Runs |-> "unset"]
    /\ exit_code = [r \in Runs |-> -1]
    /\ Script2Absent

\* One invocation of the script.
Init == InitRuns({1})

Spec == Init /\ [][Next]_vars

\* A table of the name run r uses for its transient table is in the dataset.
TransientTable(r) == \E t \in tables : t[1] = test_table(r)

\* One invocation against a dataset that holds no access_test_temp.
InitFresh == Init /\ \A r \in Runs : pc[r] = "main" => ~TransientTable(r)

SpecFresh == InitFresh /\ [][Next]_vars

\* Two invocations of the script at the same time.
InitConcurrent == InitRuns({1, 2})

SpecConcurrent == InitConcurrent /\ [][Next]_vars

\* The classification alone, on every combination of the eight booleans.
InitClassify ==
    /\ pc = [r \in Runs |-> IF r = 1 THEN "access_level" ELSE "absent"]
    /\ dataset_id \in [Runs -> DatasetIds]
    /\ \E perm \in [PermissionNames -> BOOLEAN] :
          permissions = [r \in Runs |-> IF r = 1 THEN perm ELSE NoPermissions]
    /\ calls = [r \in Runs |-> <<>>]
    /\ tables = {}
    /\ access_level = [r \in Runs |-> "unset"]
    /\ exit_code = [r \in Runs |-> -1]
    /\ Script2Absent

NextClassify == \E r \in Runs : AccessLevelSummary(r) \/ MainReturn(r)

SpecClassify == InitClassify /\ [][NextClassify]_vars

TypeOK ==
    /\ pc \in [Runs -> {"absent", "main", "get_dataset", "list_tables", "read_data",
                        "create_table", "clean_up", "delete_data", "update_dataset",
                        "access_level", "return", "except", "exited"}]
    /\ dataset_id \in [Runs -> DatasetIds]
    /\ permissions \in [Runs -> [PermissionNames -> BOOLEAN]]
    /\ access_level \in [Runs -> AccessLevels \cup {"unset"}]
    /\ exit_code \in [Runs -> {-1, 0, 1}]

----------------------------------------------------------------------------
(* Vocabulary of the properties *)

\* The client calls of the six probes, in the order of the code.
ProbeCalls ==
    <<"get_dataset", "list_tables", "query_select", "query_create",
      "query_delete", "update_dataset">>

\* check_dataset_permissions of run r is over: it returned or it raised.
RunOver(r) == pc[r] \in {"access_level", "return", "except", "exited"}

\* The probe made its call and the call raised.
Failed(r, api) == Attempted(r, api) /\ ~Returned(r, api, "ok")

OwnerEvidence(perm) == perm["can_update_dataset"] /\ perm["can_delete_data"]

WriterEvidence(perm) == perm["can_write_data"] /\ perm["can_create_table"]

ReaderEvidence(perm) == perm["can_read_data"]

----------------------------------------------------------------------------
(* C1 *)

\* C1: the access level is OWNER exactly when can_update_dataset and
\* can_delete_data hold; WRITER exactly when that fails and can_write_data and
\* can_create_table hold; READER exactly when both fail and can_read_data
\* holds; NONE exactly when all three fail.  Checked on every combination of
\* the eight booleans; the three other booleans do not occur.
C1_PriorityRule ==
    \A r \in Runs :
        access_level[r] # "unset" =>
            LET perm == permissions[r]
                o == OwnerEvidence(perm)
                w == WriterEvidence(perm)
                d == ReaderEvidence(perm)
            IN  /\ (access_level[r] = "OWNER") <=> o
                /\ (access_level[r] = "WRITER") <=> (~o /\ w)
                /\ (access_level[r] = "READER") <=> (~o /\ ~w /\ d)
                /\ (access_level[r] = "NONE") <=> (~o /\ ~w /\ ~d)

\* Update and delete evidence without write evidence was classified OWNER.
C1_Witness ==
    /\ access_level[1] = "OWNER"
    /\ permissions[1]["can_update_dataset"]
    /\ permissions[1]["can_delete_data"]
    /\ ~permissions[1]["can_write_data"]

----------------------------------------------------------------------------
(* C2 *)

\* C2 as stated: once the probe run is over, every probe that failed was
\* followed by all the probes after it, the dataset fetch included.
C2_AnyFailureIsolated ==
    \A r \in Runs :
        RunOver(r) =>
            \A i \in DOMAIN ProbeCalls :
                Failed(r, ProbeCalls[i]) =>
                    \A j \in DOMAIN ProbeCalls :
                        j > i => Attempted(r, ProbeCalls[j])

\* C2 (amended): once the probe run is over, every probe after the dataset
\* fetch that failed was followed by all the probes after it; a failed dataset
\* fetch was followed by no probe at all.
C2_FailureAfterFetchIsolated ==
    \A r \in Runs :
        RunOver(r) =>
            /\ \A i \in DOMAIN ProbeCalls :
                (i > 1 /\ Failed(r, ProbeCalls[i])) =>
                    \A j \in DOMAIN ProbeCalls :
                        j > i => Attempted(r, ProbeCalls[j])
            /\ Failed(r, "get_dataset") =>
                    \A j \in DOMAIN ProbeCalls :
                        j > 1 => ~Attempted(r, ProbeCalls[j])

\* Every probe after the fetch failed and every one of them was made.
C2_Witness ==
    /\ RunOver(1)
    /\ \A i \in DOMAIN ProbeCalls : i > 1 => Failed(1, ProbeCalls[i])

----------------------------------------------------------------------------
(* C3 *)

\* C3: with the client constructed, no error of any probe leaves
\* check_dataset_permissions: the run never reaches main's exception handler
\* and, once over, it has returned the permissions to generate_access_report.
C3_OnlyClientFailurePropagates ==
    \A r \in Runs :
        Returned(r, "Client", "ok") =>
            /\ pc[r] # "except"
            /\ pc[r] = "exited" => access_level[r] # "unset"

----------------------------------------------------------------------------
(* C4 *)

\* C4 as stated: the access level is NONE exactly when can_read_data is false.
C4_NoneIffNoRead ==
    \A r \in Runs :
        access_level[r] # "unset" =>
            ((access_level[r] = "NONE") <=> ~permissions[r]["can_read_data"])

\* C4 (amended): the access level is NONE exactly when can_read_data is false
\* and neither the WRITER evidence (can_write_data and can_create_table) nor
\* the OWNER evidence (can_update_dataset and can_delete_data) holds.
C4_NoneIffNoEvidence ==
    \A r \in Runs :
        access_level[r] # "unset" =>
            ((access_level[r] = "NONE") <=>
                (/\ ~permissions[r]["can_read_data"]
                 /\ ~WriterEvidence(permissions[r])
                 /\ ~OwnerEvidence(permissions[r])))

\* The read probe failed, the write probe succeeded, the level is not NONE.
C4_Witness ==
    /\ access_level[1] = "WRITER"
    /\ ~permissions[1]["can_read_data"]
    /\ permissions[1]["can_write_data"]

----------------------------------------------------------------------------
(* C5 *)

\* C5: a run has exit code 0 exactly when it exited with a derived level of
\* READER, WRITER or OWNER, and exit code 1 exactly when it exited with the
\* level NONE or without a level (the run was aborted by an exception).
C5_ExitCode ==
    \A r \in Runs :
        /\ (exit_code[r] = 0) <=>
              (pc[r] = "exited" /\ access_level[r] \in {"READER", "WRITER", "OWNER"})
        /\ (exit_code[r] = 1) <=>
              (pc[r] = "exited" /\ access_level[r] \in {"NONE", "unset"})
        /\ pc[r] = "exited" => exit_code[r] \in {0, 1}

\* A run whose client could not be constructed exited with code 1.
C5_Witness ==
    /\ pc[1] = "exited"
    /\ Failed(1, "Client")
    /\ exit_code[1] = 1

----------------------------------------------------------------------------
(* C6 *)

\* C6: when the clean-up call raised, can_create_table and can_write_data are
\* true from then on, the exception does not reach main's handler, and the
\* finished run has made the delete and the update-dataset probes.
C6_CleanUpFailureSwallowed ==
    \A r \in Runs :
        Failed(r, "delete_table") =>
            /\ permissions[r]["can_create_table"]
            /\ permissions[r]["can_write_data"]
            /\ pc[r] # "except"
            /\ RunOver(r) =>
                  Attempted(r, "query_delete") /\ Attempted(r, "update_dataset")

\* A finished run whose create succeeded and whose clean-up raised.
C6_Witness ==
    /\ RunOver(1)
    /\ Returned(1, "query_create", "ok")
    /\ Failed(1, "delete_table")
    /\ permissions[1]["can_create_table"]

----------------------------------------------------------------------------
(* C7 *)

\* C7 as stated: after the create attempt, whatever its result, the clean-up
\* is the next call or has been made.
C7_CleanUpUnconditional ==
    \A r \in Runs :
        Attempted(r, "query_create") =>
            (pc[r] = "clean_up" \/ Attempted(r, "delete_table"))

\* C7 (amended): after the create attempt, the clean-up is the next call or
\* has been made exactly when the create succeeded; after a failed create no
\* clean-up is attempted.
C7_CleanUpIffCreated ==
    \A r \in Runs :
        Attempted(r, "query_create") =>
            ((pc[r] = "clean_up" \/ Attempted(r, "delete_table"))
                <=> Returned(r, "query_create", "ok"))

\* A finished run whose create failed and that never called delete_table.
C7_Witness ==
    /\ RunOver(1)
    /\ Failed(1, "query_create")
    /\ ~Attempted(1, "delete_table")

----------------------------------------------------------------------------
(* C8 *)

\* C8: when the dataset fetch raised NotFound, all eight permissions are
\* false, no later probe is called, the level (once derived) is NONE and the
\* run does not end otherwise than with exit code 1.
C8_DatasetMissing ==
    \A r \in Runs :
        Returned(r, "get_dataset", "NotFound") =>
            /\ permissions[r] = NoPermissions
            /\ access_level[r] \in {"unset", "NONE"}
            /\ pc[r] \in {"access_level", "return", "exited"}
            /\ pc[r] \in {"return", "exited"} => access_level[r] = "NONE"
            /\ pc[r] = "exited" => exit_code[r] = 1

\* A run that found no dataset and exited with code 1 and level NONE.
C8_Witness ==
    /\ Returned(1, "get_dataset", "NotFound")
    /\ pc[1] = "exited"
    /\ access_level[1] = "NONE"
    /\ exit_code[1] = 1

----------------------------------------------------------------------------
(* C9 *)

\* C9: in a finished probe run that called list_tables, whatever list_tables
\* answered, the read, create/write, delete and update-dataset probes were
\* all made, and each of their flags is true exactly when its own call
\* succeeded.
C9_ListTablesIsolated ==
    \A r \in Runs :
        (RunOver(r) /\ Attempted(r, "list_tables")) =>
            /\ \A i \in DOMAIN ProbeCalls : i > 2 => Attempted(r, ProbeCalls[i])
            /\ permissions[r]["can_read_data"] = Returned(r, "query_select", "ok")
            /\ permissions[r]["can_create_table"] = Returned(r, "query_create", "ok")
            /\ permissions[r]["can_write_data"] = Returned(r, "query_create", "ok")
            /\ permissions[r]["can_delete_data"] = Returned(r, "query_delete", "ok")
            /\ permissions[r]["can_update_dataset"] = Returned(r, "update_dataset", "ok")

\* list_tables failed and every later probe succeeded.
C9_Witness ==
    /\ RunOver(1)
    /\ Failed(1, "list_tables")
    /\ ~permissions[1]["can_list_tables"]
    /\ permissions[1]["can_read_data"]
    /\ permissions[1]["can_create_table"]
    /\ permissions[1]["can_write_data"]
    /\ permissions[1]["can_delete_data"]
    /\ permissions[1]["can_update_dataset"]

----------------------------------------------------------------------------
(* C10 *)

\* Run r created its transient table and has not yet called its clean-up.
HoldsTable(r) == pc[r] = "clean_up"

\* The table run r created is in the dataset.
TableOf(r) == \E t \in tables : t[2] = r

\* This step is a successful create or a successful clean-up of run r.
CreatesOrDeletes(r) ==
    \/ calls'[r] = Append(calls[r], <<"query_create", "ok">>)
    \/ calls'[r] = Append(calls[r], <<"delete_table", "ok">>)

\* C10: while a run holds its transient table (created, clean-up not yet
\* called), every successful create and every successful clean-up of another
\* run against the same dataset takes that table away: the create replaces
\* it, the clean-up deletes it.
C10_RunsCollide ==
    [][\A p, q \in Runs :
          (/\ p # q
           /\ dataset_id[p] = dataset_id[q]
           /\ HoldsTable(p)
           /\ TableOf(p)
           /\ CreatesOrDeletes(q)) => ~TableOf(p)']_vars

\* Two runs on one dataset: run 1 is about to clean up, and the table it
\* created is gone.
C10_Witness ==
    /\ dataset_id[1] = dataset_id[2]
    /\ HoldsTable(1)
    /\ ~TableOf(1)

----------------------------------------------------------------------------
(* C11 *)

\* C11: in a run against a dataset that held no access_test_temp, once the
\* probes are over the transient table is there only if the create succeeded
\* and the clean-up call failed; after a failed create, and after a create and
\* a clean-up that both succeeded, it is not there.  And no step other than a
\* successful create or a successful clean-up changes the tables, which
\* change no table of another name.
C11_TransientTableLeft ==
    /\ [](\A r \in Runs :
            RunOver(r) =>
                /\ TransientTable(r) =>
                      (Returned(r, "query_create", "ok") /\ Failed(r, "delete_table"))
                /\ Failed(r, "query_create") => ~TransientTable(r)
                /\ (Returned(r, "query_create", "ok") /\ Returned(r, "delete_table", "ok"))
                      => ~TransientTable(r))
    /\ [][/\ (\A r \in Runs : ~CreatesOrDeletes(r)) => tables' = tables
          /\ \A r \in Runs :
                pc[r] # "absent" =>
                    {t \in tables' : t[1] # test_table(r)}
                        = {t \in tables : t[1] # test_table(r)}]_vars

\* The run is over, its create succeeded, its clean-up failed, the table stays.
C11_Witness ==
    /\ RunOver(1)
    /\ Returned(1, "query_create", "ok")
    /\ Failed(1, "delete_table")
    /\ TransientTable(1)
    /\ <<test_table(1), 1>> \in tables

----------------------------------------------------------------------------
(* C12 *)

\* C12: in every state can_create_table equals can_write_data and
\* dataset_exists equals can_get_dataset, so the WRITER test equals each of
\* its two flags; and no step turns a flag from true to false (so each flag
\* changes at most once, from false to true).
C12_FlagPairsAndMonotone ==
    /\ [](\A r \in Runs :
            /\ permissions[r]["can_create_table"] = permissions[r]["can_write_data"]
            /\ permissions[r]["dataset_exists"] = permissions[r]["can_get_dataset"]
            /\ WriterEvidence(permissions[r]) = permissions[r]["can_write_data"]
            /\ WriterEvidence(permissions[r]) = permissions[r]["can_create_table"])
    /\ [][\A r \in Runs : \A n \in PermissionNames :
            permissions[r][n] => permissions'[r][n]]_vars

\* Both pairs were set, and the clean-up after them failed.
C12_Witness ==
    /\ permissions[1]["dataset_exists"]
    /\ permissions[1]["can_get_dataset"]
    /\ permissions[1]["can_create_table"]
    /\ permissions[1]["can_write_data"]
    /\ Failed(1, "delete_table")
    /\ pc[1] = "exited"

----------------------------------------------------------------------------
(* C13 *)

\* The six flags of the probes that follow the dataset fetch.
DownstreamFlags ==
    {"can_list_tables", "can_read_data", "can_create_table", "can_write_data",
     "can_delete_data", "can_update_dataset"}

\* C13: in every state, a true flag of a probe after the dataset fetch
\* comes with dataset_exists true; and a run with a level of READER, WRITER
\* or OWNER, or with exit code 0, has dataset_exists true.
C13_GatedByDatasetFetch ==
    \A r \in Runs :
        /\ (\E n \in DownstreamFlags : permissions[r][n])
              => permissions[r]["dataset_exists"]
        /\ access_level[r] \in {"READER", "WRITER", "OWNER"}
              => permissions[r]["dataset_exists"]
        /\ exit_code[r] = 0 => permissions[r]["dataset_exists"]

\* A run that exited with code 0 as a READER.
C13_Witness ==
    /\ pc[1] = "exited"
    /\ exit_code[1] = 0
    /\ access_level[1] = "READER"
    /\ permissions[1]["can_read_data"]
    /\ permissions[1]["dataset_exists"]

----------------------------------------------------------------------------
(* scripts/bigquery-tests/02_test_data_read.py *)

\* The variables of script 4.
script4vars == <<pc, dataset_id, permissions, calls, tables, access_level, exit_code>>

\* Values of the --table-id argument ("transcripts" is the default).
TableIds == {"transcripts", "events"}

\* Ways a call of script 2 can end: it returns, it raises a
\* GoogleCloudError, or it raises another Exception.
Results2 == {"ok", "GoogleCloudError", "Exception"}

\* main reads has_write whenever --test-write was given.
ReadsHasWrite_Flat(a, rs) == a.test_write

\* main, line 132: if args.test_write and read_success
RunsWriteTest(a, rs) == a.test_write /\ rs = "True"

\* main, lines 136-139: has_write is read under "if read_success:" and
\* "if args.test_write:".
ReadsHasWrite(a, rs) == rs = "True" /\ a.test_write

\* main, line 147: return 0 if read_success else 1
ExitCode2(rs) == IF rs = "True" THEN 0 ELSE 1

\* One call inside test_data_read: success goes on to the next statement,
\* both handlers return False to main.
ReadCall(at, api, next) ==
    /\ pc2 = at
    /\ \E res \in Results2 :
          /\ calls2' = Append(calls2, <<api, res>>)
          /\ IF res = "ok"
             THEN /\ pc2' = next
                  /\ read_success' = IF next = "write_check" THEN "True" ELSE read_success
             ELSE /\ pc2' = "write_check"
                  /\ read_success' = "False"
    /\ UNCHANGED <<script4vars, args, has_write, exit_code2>>

\* test_data_read: bigquery.Client(project=project_id)
ReadClient == ReadCall("read_client", "read.Client", "read_select")

\* test_data_read: client.query(query).to_dataframe()
ReadSelect == ReadCall("read_select", "read.query_select", "read_aggregate")

\* test_data_read: client.query(agg_query).to_dataframe()
ReadAggregate == ReadCall("read_aggregate", "read.query_aggregate", "read_get_table")

\* test_data_read: client.get_table(table_ref); return True
ReadGetTable == ReadCall("read_get_table", "read.get_table", "write_check")

\* main: if args.test_write and read_success: has_write = test_write_attempt(...)
WriteCheck ==
    /\ pc2 = "write_check"
    /\ pc2' = IF RunsWriteTest(args, read_success) THEN "write_client" ELSE "report"
    /\ UNCHANGED <<script4vars, args, calls2, read_success, has_write, exit_code2>>

\* test_write_attempt: bigquery.Client(project=project_id)
WriteClient ==
    /\ pc2 = "write_client"
    /\ \E res \in Results2 :
          /\ calls2' = Append(calls2, <<"write.Client", res>>)
          /\ IF res = "ok"
             THEN pc2' = "write_delete" /\ has_write' = has_write
             ELSE pc2' = "report" /\ has_write' = "False"
    /\ UNCHANGED <<script4vars, args, read_success, exit_code2>>

\* test_write_attempt: client.query(delete_query).result()
WriteDelete ==
    /\ pc2 = "write_delete"
    /\ \E res \in Results2 :
          /\ calls2' = Append(calls2, <<"write.query_delete", res>>)
          /\ has_write' = IF res = "ok" THEN "True" ELSE "False"
    /\ pc2' = "report"
    /\ UNCHANGED <<script4vars, args, read_success, exit_code2>>

\* main, lines 135-145: the summary; reading an unbound has_write raises
\* UnboundLocalError, which nothing catches (the interpreter exits with 1).
Report ==
    /\ pc2 = "report"
    /\ IF ReadsHasWrite(args, read_success) /\ has_write = "unbound"
       THEN pc2' = "UnboundLocalError" /\ exit_code2' = 1
       ELSE pc2' = "return" /\ exit_code2' = exit_code2
    /\ UNCHANGED <<script4vars, args, calls2, read_success, has_write>>

\* main: return 0 if read_success else 1
Return2 ==
    /\ pc2 = "return"
    /\ exit_code2' = ExitCode2(read_success)
    /\ pc2' = "exited"
    /\ UNCHANGED <<script4vars, args, calls2, read_success, has_write>>

NextScript2 ==
    \/ ReadClient
    \/ ReadSelect
    \/ ReadAggregate
    \/ ReadGetTable
    \/ WriteCheck
    \/ WriteClient
    \/ WriteDelete
    \/ Report
    \/ Return2

\* Script 2 after parse_args, for every value of its arguments; script 4 is
\* not invoked.
InitScript2 ==
    /\ pc = [r \in Runs |-> "absent"]
    /\ dataset_id = [r \in Runs |-> "test_data"]
    /\ permissions = [r \in Runs |-> NoPermissions]
    /\ calls = [r \in Runs |-> <<>>]
    /\ tables = {}
    /\ access_level = [r \in Runs |-> "unset"]
    /\ exit_code = [r \in Runs |-> -1]
    /\ pc2 = "read_client"
    /\ args \in [dataset_id : DatasetIds, table_id : TableIds, test_write : BOOLEAN]
    /\ calls2 = <<>>
    /\ read_success = "unbound"
    /\ has_write = "unbound"
    /\ exit_code2 = -1

SpecScript2 == InitScript2 /\ [][NextScript2]_vars

\* The call was made by script 2.
Attempted2(api) == \E i \in DOMAIN calls2 : calls2[i][1] = api

----------------------------------------------------------------------------
(* C14 *)

\* C14: script 2 never reads has_write unbound (no UnboundLocalError); the
\* write test is run only with --test-write after a successful read test, and
\* once main is past line 132 has_write is bound exactly in that case; and
\* the exit code is 0 exactly when the read test succeeded, whatever
\* test_write and has_write are.
C14_HasWriteAndExitCode ==
    /\ pc2 # "UnboundLocalError"
    /\ Attempted2("write.Client") => (args.test_write /\ read_success = "True")
    /\ pc2 \in {"report", "return", "exited"} =>
          ((has_write # "unbound") <=> (args.test_write /\ read_success = "True"))
    /\ pc2 = "exited" => exit_code2 \in {0, 1}
    /\ pc2 = "exited" => ((exit_code2 = 0) <=> (read_success = "True"))
    /\ exit_code2 = 0 => pc2 = "exited"

\* --test-write was given, the read test passed, the write attempt succeeded
\* and the exit code is 0.
C14_Witness ==
    /\ pc2 = "exited"
    /\ args.test_write
    /\ read_success = "True"
    /\ has_write = "True"
    /\ exit_code2 = 0

====
